---- MODULE Spec2Model ----
(***************************************************************************)
(* The trade network of the stock-market game: Map (src/map.py, and the    *)
(* identical methods of src/world_map.py) keeps an undirected networkx     *)
(* graph of cities and routes and answers shortest / cheapest path queries *)
(* over the routes that are currently accessible.                          *)
(*                                                                         *)
(* The graph is two maps, as in nx.Graph: nodes (city -> attribute dict)   *)
(* and edges (unordered pair -> attribute dict; graph[u][v] and            *)
(* graph[v][u] are one shared dict, so the key is the set {u, v}, a        *)
(* singleton for a self-loop).  A path query is nx.shortest_path with a    *)
(* weight, i.e. nx.bidirectional_dijkstra run on the subgraph view that    *)
(* filters edges by their accessible flag; it is modelled step by step     *)
(* (heaps, counters, both directions), not by its contract.  Adjacency is  *)
(* iterated in ascending city order; in networkx it is insertion order,    *)
(* which decides only which of several equally good paths is returned.     *)
(***************************************************************************)
EXTENDS Integers, Sequences, FiniteSets, TLC

VARIABLES
    nodes,   \* graph._node: city -> its attribute dict
    edges,   \* graph._adj: {u, v} -> the edge's attribute dict
    call,    \* the call in progress with its arguments, NoCall between calls
    result,  \* what the call returned or raised
    prior,   \* history: what the call found at its two cities when it began
    registry,         \* Registry.registry: company id -> (name, ticker)
    next_company_id,  \* Registry.next_company_id
    registering,      \* the register_company call in progress, <<>> if none
    company_id        \* what it returned: <<id>>, or <<>> for None

mapvars == <<nodes, edges, call, result, prior>>

regvars == <<registry, next_company_id, registering, company_id>>

vars == <<mapvars, regvars>>

(* ------------------------------ bounds -------------------------------- *)

\* Routes the model lets add_connection create (the code has no limit).
MaxEdges == 3

\* City identifiers the callers use.
Cities == {1, 2, 3}

\* Distances in km (positive, as documented for add_connection).
Distances == {1, 3}

RouteTypes == {"land", "sea"}

\* Attribute bags a caller passes to add_city(city_id, **attributes).
NoAttrs == [k \in {} |-> 0]

AttrInputs ==
    {NoAttrs, [k \in {"name"} |-> "a"], [k \in {"name"} |-> "b"],
     [k \in {"country"} |-> "c"]}

\* (land_cost_per_km, sea_cost_per_km) pairs the callers pass.
CostPairs == {<<1, 3>>, <<0, 1>>, <<-1, 1>>, <<1, -1>>}

(* --------------------------- graph storage ---------------------------- *)

\* dict.update(other): keys of other overwrite, the other keys stay.
DictUpdate(d, other) == other @@ d

\* Mutant: an existing node's dict is replaced by the given attributes.
add_node_Replace(ns, n, attrs) == (n :> attrs) @@ ns

\* nx.Graph.add_node as Map.add_city calls it: a new node gets the given
\* attributes, an existing node's dict is updated with them.
add_node(ns, n, attrs) ==
    IF n \in DOMAIN ns
    THEN [ns EXCEPT ![n] = DictUpdate(ns[n], attrs)]
    ELSE (n :> attrs) @@ ns

\* nx.Graph.has_edge
has_edge(es, a, b) == {a, b} \in DOMAIN es

\* Mutant: the endpoints are not made nodes.
AddEndpoints_Missing(ns, a, b) == ns

\* nx.Graph.add_edge as Map.add_connection calls it: endpoints that are not
\* nodes become nodes with no attributes.
AddEndpoints(ns, a, b) ==
    [n \in {a, b} \ DOMAIN ns |-> NoAttrs] @@ ns

\* The edge's dict after add_edge: the existing dict (or a new one) updated
\* with the three attributes add_connection always passes.
EdgeData(distance, route_type, accessible) ==
    [distance |-> distance, route_type |-> route_type, accessible |-> accessible]

\* Mutant: an edge that exists keeps its attributes.
add_edge_KeepExisting(es, a, b, distance, route_type, accessible) ==
    es @@ ({a, b} :> EdgeData(distance, route_type, accessible))

add_edge(es, a, b, distance, route_type, accessible) ==
    ({a, b} :> EdgeData(distance, route_type, accessible)) @@ es

(* ---------------------------- path search ----------------------------- *)

\* Mutant: the view keeps every edge.
filter_edge_All(es, u, v) == TRUE

\* filter_edge of the subgraph view: lambda u, v: graph[u][v]["accessible"]
filter_edge(es, u, v) == es[{u, v}].accessible

\* The neighbours the subgraph view's adjacency yields for v.
ViewNeighbours(es, v) ==
    {w \in Cities : has_edge(es, v, w) /\ filter_edge(es, v, w)}

RECURSIVE SortedSeq(_)
SortedSeq(S) ==
    IF S = {} THEN <<>>
    ELSE LET m == CHOOSE x \in S : \A y \in S : x <= y
         IN <<m>> \o SortedSeq(S \ {m})

\* Mutant: the search counts hops (no weight given).
DistanceWeight_Hops(es) == [k \in DOMAIN es |-> 1]

\* weight="distance": data.get("distance", 1); every edge carries one.
DistanceWeight(es) == [k \in DOMAIN es |-> es[k].distance]

\* Mutant: the two rates are swapped.
cost_Swapped(a, land_cost_per_km, sea_cost_per_km) ==
    IF a.route_type = "land"
    THEN a.distance * sea_cost_per_km
    ELSE a.distance * land_cost_per_km

\* The nested cost(u, v, a) of get_cheapest_path.
cost(a, land_cost_per_km, sea_cost_per_km) ==
    IF a.route_type = "land"
    THEN a.distance * land_cost_per_km
    ELSE a.distance * sea_cost_per_km

CostWeight(es, land_cost_per_km, sea_cost_per_km) ==
    [k \in DOMAIN es |-> cost(es[k], land_cost_per_km, sea_cost_per_km)]

\* Mutant: the half of the path found from the target is not turned round.
Reverse_Kept(s) == s

Reverse(s) == [i \in 1..Len(s) |-> s[Len(s) + 1 - i]]

\* heappop on (distance, count, node) tuples.
HeapMin(F) ==
    CHOOSE t \in F : \A u \in F :
        t[1] < u[1] \/ (t[1] = u[1] /\ t[2] <= u[2])

Outcome(kind, path) == [kind |-> kind, path |-> path]

\* One pass of "for w, d in neighs[dir][v].items()" of bidirectional_dijkstra,
\* over the neighbours ws still to visit.  i is dir + 1, j the other side.
RECURSIVE Relax(_, _, _, _, _)
Relax(st, W, i, v, ws) ==
    IF ws = <<>> THEN st
    ELSE
      LET w == Head(ws)
          j == 3 - i
          vwLength == st.dists[i][v] + W[{v, w}]
      IN IF w \in DOMAIN st.dists[i]
         THEN IF vwLength < st.dists[i][w]
              THEN [st EXCEPT !.err = TRUE]
              ELSE Relax(st, W, i, v, Tail(ws))
         ELSE IF w \notin DOMAIN st.seen[i] \/ vwLength < st.seen[i][w]
         THEN
           LET seen2  == [st.seen EXCEPT ![i] = (w :> vwLength) @@ @]
               paths2 == [st.paths EXCEPT ![i] = (w :> Append(@[v], w)) @@ @]
               both   == w \in DOMAIN seen2[1] /\ w \in DOMAIN seen2[2]
               totaldist == seen2[1][w] + seen2[2][w]
               better == both /\ (st.finalpath = <<>> \/ st.finaldist > totaldist)
               st2 == [st EXCEPT
                         !.seen = seen2,
                         !.paths = paths2,
                         !.fringe[i] = @ \cup {<<vwLength, st.c, w>>},
                         !.c = @ + 1,
                         !.finaldist = IF better THEN totaldist ELSE @,
                         !.finalpath = IF better
                                       THEN paths2[1][w] \o Tail(Reverse(paths2[2][w]))
                                       ELSE @]
           IN Relax(st2, W, i, v, Tail(ws))
         ELSE Relax(st, W, i, v, Tail(ws))

\* The "while fringe[0] and fringe[1]" loop of bidirectional_dijkstra.
RECURSIVE SearchLoop(_, _, _)
SearchLoop(st, es, W) ==
    IF st.fringe[1] = {} \/ st.fringe[2] = {}
    THEN Outcome("NetworkXNoPath", <<>>)
    ELSE
      LET i == 3 - st.dir
          j == 3 - i
          top == HeapMin(st.fringe[i])
          v == top[3]
          popped == [st EXCEPT !.dir = i, !.fringe[i] = @ \ {top}]
      IN IF v \in DOMAIN st.dists[i]
         THEN SearchLoop(popped, es, W)
         ELSE
           LET done == [popped EXCEPT !.dists[i] = (v :> top[1]) @@ @]
           IN IF v \in DOMAIN done.dists[j]
              THEN Outcome("path", done.finalpath)
              ELSE
                LET after == Relax(done, W, i, v, SortedSeq(ViewNeighbours(es, v)))
                IN IF after.err
                   THEN Outcome("ValueError", <<>>)
                   ELSE SearchLoop(after, es, W)

\* The search from its first state: both fringes hold their endpoint.
Search(es, W, source, target) ==
    SearchLoop(
        [dists |-> <<NoAttrs, NoAttrs>>,
         paths |-> <<(source :> <<source>>), (target :> <<target>>)>>,
         seen |-> <<(source :> 0), (target :> 0)>>,
         fringe |-> <<{<<0, 0, source>>}, {<<0, 1, target>>}>>,
         c |-> 2,
         finaldist |-> 0,
         finalpath |-> <<>>,
         dir |-> 2,
         err |-> FALSE],
        es, W)

\* Mutant: no check that source and target are nodes.
shortest_path_Unchecked(ns, es, W, source, target) ==
    IF source = target
    THEN Outcome("path", <<source>>)
    ELSE Search(es, W, source, target)

\* Mutant: no shortcut for source = target.
shortest_path_NoShortcut(ns, es, W, source, target) ==
    IF source \notin DOMAIN ns \/ target \notin DOMAIN ns
    THEN Outcome("NodeNotFound", <<>>)
    ELSE Search(es, W, source, target)

\* nx.shortest_path(subgraph, source, target, weight=...), which is
\* nx.bidirectional_dijkstra on the view: the view keeps every node.
shortest_path(ns, es, W, source, target) ==
    IF source \notin DOMAIN ns \/ target \notin DOMAIN ns
    THEN Outcome("NodeNotFound", <<>>)
    ELSE IF source = target
    THEN Outcome("path", <<source>>)
    ELSE Search(es, W, source, target)

get_shortest_path(ns, es, start, end) ==
    shortest_path(ns, es, DistanceWeight(es), start, end)

get_cheapest_path(ns, es, start, end, land_cost_per_km, sea_cost_per_km) ==
    shortest_path(ns, es, CostWeight(es, land_cost_per_km, sea_cost_per_km),
                  start, end)

(* ------------------------------ actions ------------------------------- *)

\* A call and its arguments; the fields an operation does not take keep
\* the values of NoCall.
NoCall ==
    [op |-> "none", a |-> 0, b |-> 0, distance |-> 0, route_type |-> "",
     accessible |-> FALSE, attributes |-> NoAttrs, land |-> 0, sea |-> 0]

None == Outcome("None", <<>>)

\* What a call naming cities a and b finds there: the edge's state and which
\* of the two are nodes.  Recorded for the claims; no operation reads it.
Found(ns, es, a, b) ==
    [edge |-> IF ~has_edge(es, a, b) THEN "absent"
              ELSE IF es[{a, b}].accessible THEN "accessible"
              ELSE "inaccessible",
     nodes |-> {a, b} \cap DOMAIN ns]

NotCalled == [edge |-> "absent", nodes |-> {}]

Idle == call.op = "none"

Init ==
    /\ nodes = NoAttrs
    /\ edges = NoAttrs
    /\ call = NoCall
    /\ result = None
    /\ prior = NotCalled
    /\ registry = NoAttrs
    /\ next_company_id = 1
    /\ registering = <<>>
    /\ company_id = <<>>

\* Map.add_city(city_id, **attributes)
add_city(city_id, attributes) ==
    /\ Idle
    /\ call' = [NoCall EXCEPT !.op = "add_city", !.a = city_id,
                              !.attributes = attributes]
    /\ prior' = Found(nodes, edges, city_id, city_id)
    /\ nodes' = add_node(nodes, city_id, attributes)
    /\ result' = None
    /\ UNCHANGED <<edges, regvars>>

\* Map.add_connection(city_a, city_b, distance, route_type, accessible)
add_connection(city_a, city_b, distance, route_type, accessible) ==
    /\ Idle
    /\ has_edge(edges, city_a, city_b) \/ Cardinality(DOMAIN edges) < MaxEdges
    /\ call' = [NoCall EXCEPT !.op = "add_connection",
                              !.a = city_a, !.b = city_b,
                              !.distance = distance,
                              !.route_type = route_type,
                              !.accessible = accessible]
    /\ prior' = Found(nodes, edges, city_a, city_b)
    /\ nodes' = AddEndpoints(nodes, city_a, city_b)
    /\ edges' = add_edge(edges, city_a, city_b, distance, route_type, accessible)
    /\ result' = None
    /\ UNCHANGED regvars

\* Mutant: closes or opens every route of city_a, not the one to city_b.
set_accessibility_WholeCity(city_a, city_b, accessible) ==
    /\ Idle
    /\ call' = [NoCall EXCEPT !.op = "set_accessibility",
                              !.a = city_a, !.b = city_b,
                              !.accessible = accessible]
    /\ prior' = Found(nodes, edges, city_a, city_b)
    /\ edges' = IF has_edge(edges, city_a, city_b)
                THEN [e \in DOMAIN edges |->
                        IF city_a \in e
                        THEN [edges[e] EXCEPT !.accessible = accessible]
                        ELSE edges[e]]
                ELSE edges
    /\ result' = None
    /\ UNCHANGED <<nodes, regvars>>

\* Mutant: no has_edge guard, the subscript raises KeyError on a missing edge.
set_accessibility_Unguarded(city_a, city_b, accessible) ==
    /\ Idle
    /\ call' = [NoCall EXCEPT !.op = "set_accessibility",
                              !.a = city_a, !.b = city_b,
                              !.accessible = accessible]
    /\ prior' = Found(nodes, edges, city_a, city_b)
    /\ edges' = IF has_edge(edges, city_a, city_b)
                THEN [edges EXCEPT ![{city_a, city_b}].accessible = accessible]
                ELSE edges
    /\ result' = IF has_edge(edges, city_a, city_b)
                 THEN None
                 ELSE Outcome("KeyError", <<>>)
    /\ UNCHANGED <<nodes, regvars>>

\* Map.set_accessibility(city_a, city_b, accessible)
set_accessibility(city_a, city_b, accessible) ==
    /\ Idle
    /\ call' = [NoCall EXCEPT !.op = "set_accessibility",
                              !.a = city_a, !.b = city_b,
                              !.accessible = accessible]
    /\ prior' = Found(nodes, edges, city_a, city_b)
    /\ edges' = IF has_edge(edges, city_a, city_b)
                THEN [edges EXCEPT ![{city_a, city_b}].accessible = accessible]
                ELSE edges
    /\ result' = None
    /\ UNCHANGED <<nodes, regvars>>

\* Mutant: the query looks its start city up in a way that creates it.
ShortestPathQuery_AddsStart(start, end) ==
    /\ Idle
    /\ call' = [NoCall EXCEPT !.op = "get_shortest_path",
                              !.a = start, !.b = end]
    /\ prior' = Found(nodes, edges, start, end)
    /\ result' = get_shortest_path(nodes, edges, start, end)
    /\ nodes' = add_node(nodes, start, NoAttrs)
    /\ UNCHANGED <<edges, regvars>>

\* Map.get_shortest_path(start, end); result is what it returns or raises.
ShortestPathQuery(start, end) ==
    /\ Idle
    /\ call' = [NoCall EXCEPT !.op = "get_shortest_path",
                              !.a = start, !.b = end]
    /\ prior' = Found(nodes, edges, start, end)
    /\ result' = get_shortest_path(nodes, edges, start, end)
    /\ UNCHANGED <<nodes, edges, regvars>>

\* Map.get_cheapest_path(start, end, land_cost_per_km, sea_cost_per_km)
CheapestPathQuery(start, end, land_cost_per_km, sea_cost_per_km) ==
    /\ Idle
    /\ call' = [NoCall EXCEPT !.op = "get_cheapest_path",
                              !.a = start, !.b = end,
                              !.land = land_cost_per_km,
                              !.sea = sea_cost_per_km]
    /\ prior' = Found(nodes, edges, start, end)
    /\ result' = get_cheapest_path(nodes, edges, start, end,
                                   land_cost_per_km, sea_cost_per_km)
    /\ UNCHANGED <<nodes, edges, regvars>>

\* The call is over: the caller has its outcome and may call again (the
\* program is single-threaded, one call at a time).
Return ==
    /\ ~Idle
    /\ call' = NoCall
    /\ result' = None
    /\ prior' = NotCalled
    /\ UNCHANGED <<nodes, edges, regvars>>

\* Every call on the map, the cities added without attributes (the search
\* never reads a node's attributes).
Next ==
    \/ \E c \in Cities : add_city(c, NoAttrs)
    \/ \E a, b \in Cities, d \in Distances, t \in RouteTypes, acc \in BOOLEAN :
          add_connection(a, b, d, t, acc)
    \/ \E a, b \in Cities, acc \in BOOLEAN : set_accessibility(a, b, acc)
    \/ \E s, e \in Cities : ShortestPathQuery(s, e)
    \/ \E s, e \in Cities, cp \in CostPairs :
          CheapestPathQuery(s, e, cp[1], cp[2])
    \/ Return

Spec == Init /\ [][Next]_vars

\* The calls that build the graph, the cities added with every attribute
\* bag, the routes all of one distance and type.
NextCity ==
    \/ \E c \in Cities, attrs \in AttrInputs : add_city(c, attrs)
    \/ \E a, b \in Cities, acc \in BOOLEAN :
          add_connection(a, b, 1, "land", acc)
    \/ \E a, b \in Cities, acc \in BOOLEAN : set_accessibility(a, b, acc)
    \/ Return

SpecCity == Init /\ [][NextCity]_vars

(* ------------------------------ registry ------------------------------ *)

\* Companies the model lets the registry hold (the code has no limit).
MaxCompanies == 3

Names == {"Acme", "Bolt"}

Tickers == {"ACM", "BLT"}

\* Python values with their type: == between values of different types is
\* False, it is no error.
PyStr(s) == [type |-> "str", val |-> s]

PyInt(i) == [type |-> "int", val |-> i]

PyTuple(t) == [type |-> "tuple", val |-> t]

PyEq(x, y) == x.type = y.type /\ x.val = y.val

\* "x in d" on a dict: x equals one of the keys, the company ids.
InDict(x, d) == \E k \in DOMAIN d : PyEq(x, PyInt(k))

\* "x in d.values()": x equals one of the values, the (name, ticker) tuples.
InValues(x, d) == \E k \in DOMAIN d : PyEq(x, PyTuple(d[k]))

\* The test that cancels a registration.
Taken(name, ticker) ==
    InDict(PyStr(name), registry) \/ InValues(PyStr(ticker), registry)

\* Registry.register_company(name, ticker)
register_company(name, ticker) ==
    /\ registering = <<>>
    /\ next_company_id <= MaxCompanies
    /\ registering' = <<name, ticker>>
    /\ IF Taken(name, ticker)
       THEN /\ company_id' = <<>>
            /\ UNCHANGED <<registry, next_company_id>>
       ELSE /\ company_id' = <<next_company_id>>
            /\ next_company_id' = next_company_id + 1
            /\ registry' = (next_company_id :> <<name, ticker>>) @@ registry
    /\ UNCHANGED mapvars

\* The caller (generate_company) has the id, or None, and goes on.
Registered ==
    /\ registering # <<>>
    /\ registering' = <<>>
    /\ company_id' = <<>>
    /\ UNCHANGED <<registry, next_company_id, mapvars>>

NextRegistry ==
    \/ \E name \in Names, ticker \in Tickers : register_company(name, ticker)
    \/ Registered

SpecRegistry == Init /\ [][NextRegistry]_vars

(* ----------------------- vocabulary of the claims --------------------- *)

IsQuery == call.op \in {"get_shortest_path", "get_cheapest_path"}

ValidCosts == call.land >= 0 /\ call.sea >= 0

\* An edge a path may use now.
AccessibleEdge(u, v) == has_edge(edges, u, v) /\ edges[{u, v}].accessible

\* The walks that go on from a walk of P by one accessible edge.
OneMore(P) ==
    UNION {{Append(p, w) : w \in {x \in DOMAIN nodes : AccessibleEdge(p[Len(p)], x)}}
           : p \in P}

RECURSIVE WalksWithin(_, _)
WalksWithin(P, n) ==
    IF n = 0 THEN P ELSE P \cup WalksWithin(OneMore(P), n - 1)

\* Every walk from s over accessible edges of up to |Cities| edges: all
\* simple paths, and the shortest walks that come back to a city.
WalksFrom(s) ==
    WalksWithin(IF s \in DOMAIN nodes THEN {<<s>>} ELSE {}, Cardinality(Cities))

AccessiblePaths(s, e) == {p \in WalksFrom(s) : p[Len(p)] = e}

Connected(s, e) == AccessiblePaths(s, e) # {}

RECURSIVE Summed(_, _)
Summed(p, W) ==
    IF Len(p) <= 1 THEN 0
    ELSE W[{p[1], p[2]}] + Summed(Tail(p), W)

\* The weights the claims speak of, written out from the edge attributes.
Km == [k \in DOMAIN edges |-> edges[k].distance]

Fare == [k \in DOMAIN edges |->
            edges[k].distance *
              (IF edges[k].route_type = "land" THEN call.land ELSE call.sea)]

Optimal(W) ==
    /\ result.kind = "path"
    /\ result.path \in AccessiblePaths(call.a, call.b)
    /\ \A p \in AccessiblePaths(call.a, call.b) :
          Summed(result.path, W) <= Summed(p, W)

\* A detour was preferred to the direct, accessible edge.
TookDetour ==
    /\ result.kind = "path"
    /\ Len(result.path) = 3
    /\ AccessibleEdge(call.a, call.b)

(* ------------------------------- claims ------------------------------- *)

\* C1: when start and end are joined by a path of accessible edges,
\* get_shortest_path returns an accessible path from start to end whose
\* summed distance is at most that of every accessible path between them.
C1_ShortestIsMinimal ==
    (call.op = "get_shortest_path" /\ Connected(call.a, call.b))
        => Optimal(Km)

\* C1 witness: the shortest path is a two-edge detour although the direct
\* edge is accessible (it is longer).
C1_Witness ==
    /\ call.op = "get_shortest_path"
    /\ TookDetour
    /\ Summed(result.path, Km) < edges[{call.a, call.b}].distance

\* C2: with non-negative costs per km and start and end joined by accessible
\* edges, get_cheapest_path returns an accessible path whose summed cost
\* (distance times the land rate on a land edge, times the sea rate on any
\* other) is at most that of every accessible path between them.
C2_CheapestIsMinimal ==
    (call.op = "get_cheapest_path" /\ ValidCosts /\ Connected(call.a, call.b))
        => Optimal(Fare)

\* C2 witness: the cheapest path is a detour that is longer in km than the
\* direct accessible edge but costs less.
C2_Witness ==
    /\ call.op = "get_cheapest_path"
    /\ ValidCosts
    /\ TookDetour
    /\ Summed(result.path, Km) > edges[{call.a, call.b}].distance
    /\ Summed(result.path, Fare) < Fare[{call.a, call.b}]

\* Every step of the returned path is an edge that is accessible now.
OnlyAccessibleEdges ==
    (IsQuery /\ result.kind = "path")
        => \A i \in 1..(Len(result.path) - 1) :
              AccessibleEdge(result.path[i], result.path[i + 1])

\* The step reopens an edge: set_accessibility(a, b, True) on an edge that
\* was inaccessible.
Reopens ==
    /\ call'.op = "set_accessibility"
    /\ call'.accessible
    /\ prior'.edge = "inaccessible"

\* C3: a path query never returns a path over an edge that is inaccessible
\* at the time of the query; and once set_accessibility(a, b, True) has
\* reopened an edge, the graph is the one in which that edge was created
\* accessible (nothing else differs), so the edge is eligible again: a
\* shortest-path query between its ends finds a path no longer than it.
C3_LiveFilter ==
    [][/\ OnlyAccessibleEdges'
       /\ Reopens =>
            LET a == call'.a
                b == call'.b
                r == get_shortest_path(nodes', edges', a, b)
            IN /\ nodes' = nodes
               /\ edges' = add_edge(edges, a, b, edges[{a, b}].distance,
                                    edges[{a, b}].route_type, TRUE)
               /\ r.kind = "path"
               /\ Summed(r.path, Km') <= edges'[{a, b}].distance]_vars

\* C3 witness: the direct edge between start and end is inaccessible and
\* the query returns a detour around it.
C3_Witness ==
    /\ IsQuery
    /\ prior.edge = "inaccessible"
    /\ result.kind = "path"
    /\ Len(result.path) = 3

\* C4 as claimed: a query between cities that no accessible path joins
\* fails with the no-path error, also when start or end is not a node.
C4_Claimed ==
    (IsQuery /\ ~Connected(call.a, call.b))
        => result = Outcome("NetworkXNoPath", <<>>)

\* C4 amended: such a query fails and returns no path, partial or whole:
\* with the node-not-found error when start or end is not a node, else
\* with the no-path error (a negative cost can make the search itself fail
\* first, with ValueError).
C4_FailsWithoutPath ==
    (IsQuery /\ ~Connected(call.a, call.b))
        => /\ result.path = <<>>
           /\ IF ~({call.a, call.b} \subseteq DOMAIN nodes)
              THEN result.kind = "NodeNotFound"
              ELSE IF ValidCosts
              THEN result.kind = "NetworkXNoPath"
              ELSE result.kind \in {"NetworkXNoPath", "ValueError"}

\* C4 witness: start and end are nodes, joined only by an inaccessible
\* edge, and the query fails with the no-path error.
C4_Witness ==
    /\ IsQuery
    /\ ValidCosts
    /\ prior.edge = "inaccessible"
    /\ ~Connected(call.a, call.b)
    /\ result.kind = "NetworkXNoPath"

\* C5 as claimed: get_cheapest_path with a negative land or sea cost per km
\* is rejected as an invalid argument and returns no path.
C5_Claimed ==
    (call.op = "get_cheapest_path" /\ ~ValidCosts)
        => result = Outcome("InvalidArgument", <<>>)

\* C6: set_accessibility on a pair with no edge raises nothing and leaves
\* the graph as it was: no edge and no node is created, no edge changes.
C6_NoEdgeNoChange ==
    [][(call'.op = "set_accessibility" /\ ~has_edge(edges, call'.a, call'.b))
          => /\ result' = None
             /\ nodes' = nodes
             /\ edges' = edges]_vars

\* C6 witness: set_accessibility has returned from a call on two cities
\* that had no edge, one of them not even a node, in a graph with edges.
C6_Witness ==
    /\ call.op = "set_accessibility"
    /\ prior.edge = "absent"
    /\ prior.nodes # {call.a, call.b}
    /\ ~has_edge(edges, call.a, call.b)
    /\ DOMAIN edges # {}

\* C7: add_connection leaves one edge for the unordered pair, carrying the
\* call's distance, route_type and accessible, and no other edge changes;
\* on an existing pair (named in either order) no edge is added, and the
\* same call again gives the same graph.
C7_OneEdgeLatestValues ==
    [][call'.op = "add_connection" =>
         LET a == call'.a
             b == call'.b
             d == EdgeData(call'.distance, call'.route_type, call'.accessible)
         IN /\ edges'[{a, b}] = d
            /\ edges'[{b, a}] = d
            /\ DOMAIN edges' = DOMAIN edges \cup {{a, b}}
            /\ \A k \in DOMAIN edges \ {{a, b}} : edges'[k] = edges[k]
            /\ has_edge(edges, b, a) => DOMAIN edges' = DOMAIN edges
            /\ add_edge(edges', a, b, d.distance, d.route_type, d.accessible)
                  = edges'
            /\ AddEndpoints(nodes', a, b) = nodes']_vars

\* C7 witness: add_connection with accessible = True has returned from a
\* pair whose edge was inaccessible, and the edge is accessible.
C7_Witness ==
    /\ call.op = "add_connection"
    /\ call.accessible
    /\ prior.edge = "inaccessible"
    /\ AccessibleEdge(call.b, call.a)

\* C8: get_shortest_path(x, x) on a node x returns <<x>>, whatever the
\* state of x's edges.
C8_SelfPath ==
    (call.op = "get_shortest_path" /\ call.a = call.b /\ call.a \in DOMAIN nodes)
        => result = Outcome("path", <<call.a>>)

\* C8 witness: x has edges, none of them accessible, and the query from x
\* to x returned <<x>>.
C8_Witness ==
    /\ call.op = "get_shortest_path"
    /\ call.a = call.b
    /\ result = Outcome("path", <<call.a>>)
    /\ \E w \in Cities : has_edge(edges, call.a, w)
    /\ \A w \in Cities : ~AccessibleEdge(call.a, w)

\* C9 as claimed: no edge joins a city to itself.
C9_Claimed == \A k \in DOMAIN edges : Cardinality(k) = 2

EndpointsAreNodes == \A k \in DOMAIN edges : k \subseteq DOMAIN nodes

\* C10: both endpoints of every edge are nodes; add_connection makes an
\* endpoint that is not yet a node a node with no attributes, raises
\* nothing, and leaves the nodes there were as they were.
C10_EndpointsAreNodes ==
    [][/\ EndpointsAreNodes
       /\ EndpointsAreNodes'
       /\ call'.op = "add_connection" =>
            /\ result' = None
            /\ DOMAIN nodes' = DOMAIN nodes \cup {call'.a, call'.b}
            /\ \A n \in DOMAIN nodes' :
                  nodes'[n] = IF n \in DOMAIN nodes THEN nodes[n] ELSE NoAttrs]_vars

\* C10 witness: add_connection has returned from a call naming a city that
\* was no node; the city is a node now, without attributes.
C10_Witness ==
    /\ call.op = "add_connection"
    /\ \E n \in {call.a, call.b} \ prior.nodes :
          n \in DOMAIN nodes /\ nodes[n] = NoAttrs

\* The step is add_city on a city that is a node already.
ReAddsCity == call'.op = "add_city" /\ call'.a \in DOMAIN nodes

\* No edge is added, removed or changed by the step.
EdgesKept == edges' = edges

\* C11 as claimed: add_city on a node replaces the node's attributes by
\* the ones given (none of the earlier ones survives) and keeps the edges.
C11_Claimed ==
    [][ReAddsCity =>
          /\ nodes'[call'.a] = call'.attributes
          /\ EdgesKept]_vars

\* C11 amended: add_city on a node updates the node's attributes with the
\* ones given: a key that is given takes the new value, every other
\* attribute the node had survives; the other nodes, the edge set and
\* every edge's attributes stay as they were, and nothing is raised.
C11_UpdatesAttributes ==
    [][ReAddsCity =>
          LET n == call'.a
              given == call'.attributes
          IN /\ result' = None
             /\ EdgesKept
             /\ DOMAIN nodes' = DOMAIN nodes
             /\ \A m \in DOMAIN nodes \ {n} : nodes'[m] = nodes[m]
             /\ DOMAIN nodes'[n] = DOMAIN nodes[n] \cup DOMAIN given
             /\ \A k \in DOMAIN nodes'[n] :
                   nodes'[n][k] = IF k \in DOMAIN given
                                  THEN given[k]
                                  ELSE nodes[n][k]]_vars

\* C11 witness: add_city has returned from a call on a city that was a
\* node with edges; the node holds an attribute the call did not give.
C11_Witness ==
    /\ call.op = "add_city"
    /\ call.a \in prior.nodes
    /\ \E w \in Cities : has_edge(edges, call.a, w)
    /\ DOMAIN nodes[call.a] \ DOMAIN call.attributes # {}

\* C12 as claimed: no two registered companies share a name and none
\* share a ticker; a call with a name or ticker that a registered company
\* holds returns None, adds no entry and leaves next_company_id as it was.
C12_Claimed ==
    /\ \A i, j \in DOMAIN registry :
          i # j => registry[i][1] # registry[j][1] /\ registry[i][2] # registry[j][2]
    /\ (/\ registering # <<>>
        /\ \E k \in DOMAIN registry \ {next_company_id - 1} :
              registry[k][1] = registering[1] \/ registry[k][2] = registering[2])
          => company_id = <<>>

\* The step is set_accessibility on an edge the graph has.
SetsExistingEdge ==
    call'.op = "set_accessibility" /\ has_edge(edges, call'.a, call'.b)

\* C14: set_accessibility(a, b, v) on an existing edge sets the accessible
\* flag of that one edge, named as (a, b) or as (b, a), to v; the nodes,
\* the set of edges, that edge's distance and route_type and every other
\* edge's attributes stay as they were.
C14_OnlyThatFlag ==
    [][SetsExistingEdge =>
          LET a == call'.a
              b == call'.b
          IN /\ nodes' = nodes
             /\ DOMAIN edges' = DOMAIN edges
             /\ edges'[{b, a}].accessible = call'.accessible
             /\ edges'[{a, b}].distance = edges[{a, b}].distance
             /\ edges'[{a, b}].route_type = edges[{a, b}].route_type
             /\ \A e \in DOMAIN edges \ {{a, b}} : edges'[e] = edges[e]]_vars

\* A route named from its larger city is closed while another route of that
\* city is open.
C14_Witness ==
    /\ call.op = "set_accessibility"
    /\ prior.edge = "accessible"
    /\ ~call.accessible
    /\ call.a > call.b
    /\ ~edges[{call.a, call.b}].accessible
    /\ \E w \in Cities \ {call.b} : AccessibleEdge(call.a, w)

\* p is a well formed path from s to e.
WellFormed(p, s, e) ==
    /\ p # <<>>
    /\ p[1] = s
    /\ p[Len(p)] = e
    /\ \A i \in 1..(Len(p) - 1) : AccessibleEdge(p[i], p[i + 1])
    /\ \A i, j \in 1..Len(p) : i # j => p[i] # p[j]

\* C15: every path a query returns starts at start, ends at end, goes by
\* edges that are accessible at the time of the query, and holds no city
\* twice.
C15_WellFormedPath ==
    (IsQuery /\ result.kind = "path") => WellFormed(result.path, call.a, call.b)

\* A path of three cities found by meeting in the middle.
C15_Witness ==
    /\ call.op = "get_cheapest_path"
    /\ result.kind = "path"
    /\ Len(result.path) = 3
    /\ prior.edge = "absent"

\* What the query c returns when made on the graph of ns and es.
Requery(ns, es, c) ==
    IF c.op = "get_shortest_path"
    THEN get_shortest_path(ns, es, c.a, c.b)
    ELSE get_cheapest_path(ns, es, c.a, c.b, c.land, c.sea)

\* C16: a query, whether it returns a path or fails, leaves the nodes and
\* the edges with all their attributes as they were, and the same query
\* made again on the graph it leaves gives the same result.
C16_ReadOnly ==
    [][call'.op \in {"get_shortest_path", "get_cheapest_path"} =>
          /\ nodes' = nodes
          /\ edges' = edges
          /\ result' = Requery(nodes', edges', call')]_vars

\* A query that fails for a start city that is no node, on a graph with
\* routes.
C16_Witness ==
    /\ call.op = "get_shortest_path"
    /\ call.a \notin DOMAIN nodes
    /\ result.kind = "NodeNotFound"
    /\ DOMAIN edges # {}

====
